---- MODULE Spec2Model ----
(***************************************************************************)
(* Model of internal/entity/entity.go: the entity registry, the table      *)
(* provisioner (Types.Migrate, Types.Drop), the migration waiter           *)
(* (Types.WaitForMigration), the lifecycle operations (MigrateDb,          *)
(* DropTables, ResetDb) and the test initialisers (InitTestFixtures,       *)
(* InitTestDb) guarded by resetFixturesOnce and the database provider.     *)
(*                                                                         *)
(* Every database call is one step of the calling goroutine.  The result   *)
(* of a database call (error or not) is an input of the step.  A panic     *)
(* unwinds the calling goroutine up to the entry point it was called       *)
(* through; sync.Once marks itself done while the panic passes through Do. *)
(***************************************************************************)
EXTENDS Integers, Sequences, FiniteSets

\* ------------------------------------------------------------------ bounds

\* Number of entries of the registry that are modelled.
NumTables == 2
\* Number of goroutines that may call the entry points concurrently.
NumThreads == 2
\* Number of entry-point calls made during one run.
MaxCalls == 2

\* ------------------------------------------------------ program constants

\* attempts := 100
attempts == 100

\* Table names of the registry, in the order they are taken into the model.
TableNames == <<"cameras", "lenses", "places", "countries", "photos", "files">>

\* var Entities = Types{...}: the registered tables.
Entities == {TableNames[k] : k \in 1..NumTables}

\* type Types map[string]interface{}: the values a receiver `list` can have.
Types == SUBSET Entities

Threads == 1..NumThreads

\* The default entities (unknown place, country, camera, lens).
Seeds == {"place", "country", "camera", "lens"}

\* MigrateDb without its last constructor call.
SeedOrderNoLens == <<"place", "country", "camera">>

\* MigrateDb calling CreateUnknownCamera() twice.
SeedOrderDup == <<"place", "country", "camera", "camera", "lens">>

\* MigrateDb calling CreateUnknownCamera() before CreateUnknownCountry().
SeedOrderSwapped == <<"place", "camera", "country", "lens">>

\* MigrateDb: CreateUnknownPlace(); CreateUnknownCountry();
\* CreateUnknownCamera(); CreateUnknownLens(), in call order.
SeedOrder == <<"place", "country", "camera", "lens">>

\* The table that stores the rows of a default entity.
SeedTable(s) ==
    CASE s = "place" -> "places"
      [] s = "country" -> "countries"
      [] s = "camera" -> "cameras"
      [] s = "lens" -> "lenses"

None == "-"

\* Entry points of the package.
ListOps == {"Migrate", "Drop", "WaitForMigration"}
GateOps == {"InitTestFixtures", "InitTestDb"}
AllOps == ListOps \cup GateOps \cup {"MigrateDb", "DropTables", "ResetDb"}

\* Observation counters of one call saturate here (they only need to tell
\* the small counts apart from "more").
CountCap == NumTables + 1
Inc(n) == IF n < CountCap THEN n + 1 ELSE n

VARIABLES
    dbProvider,         \* the registered provider: 0 (none) or the goroutine whose handle it is
    resetFixturesOnce,  \* sync.Once: "idle", "running" (f is executing), "done"
    dbTables,           \* database: the tables that exist
    rows,               \* database: number of rows of each default entity
    fixtureTables,      \* database: the tables that hold test fixture data
    th,                 \* per goroutine: position and locals of the call it executes
    h,                  \* per goroutine: what the current (or last) call has done so far
    g,                  \* per process: executions counted over all calls, and how the run of
                        \* ResetDb(true) inside resetFixturesOnce.Do ended and what it had done
    prev,               \* per goroutine: its previous call, if any, and the database when the current call began
    calls,              \* number of entry-point calls made so far
    callers,            \* the goroutines that make calls in this run
    entry               \* the entry points called in this run

vars == <<dbProvider, resetFixturesOnce, dbTables, rows, fixtureTables, th, h, g,
          prev, calls, callers, entry>>

\* ------------------------------------------------------------ initial state

IdleThread ==
    [pc |-> "idle", op |-> None, testFixtures |-> FALSE, list |-> {},
     todo |-> {}, name |-> None, i |-> 0, ret |-> None]

FreshHistory ==
    [nDrop |-> 0, nCreate |-> 0, nProbe |-> 0, nFail |-> 0, nSleep |-> 0,
     tProbe |-> 0, tSleep |-> 0, tFail |-> 0, tOk |-> FALSE,
     dropped |-> {}, created |-> {}, probed |-> {}, confirmed |-> {},
     seeds |-> <<>>, nFix |-> 0, didSet |-> FALSE, didDo |-> FALSE,
     fatal |-> None, beforeDone |-> FALSE]

\* What the run of ResetDb(true) inside resetFixturesOnce.Do had done when it
\* ended, taken from the history hist of the call that ran it.
ResetSummary(hist) ==
    [dropped |-> hist.dropped, created |-> hist.created,
     confirmed |-> hist.confirmed, seeds |-> hist.seeds, nFix |-> hist.nFix]

NoPrev == [op |-> None, ret |-> None, testFixtures |-> FALSE, tables |-> {}, rows |-> <<>>]

\* The database the process finds: any subset of the tables may exist, and
\* they are empty or populated (the default rows and fixture data of every
\* existing table).
InitDb ==
    /\ dbTables \in SUBSET Entities
    /\ \E populated \in BOOLEAN :
          /\ rows = [s \in Seeds |->
                       IF populated /\ SeedTable(s) \in dbTables THEN 1 ELSE 0]
          /\ fixtureTables = IF populated THEN dbTables ELSE {}

InitProcess ==
    /\ dbProvider = 0
    /\ resetFixturesOnce = "idle"
    /\ th = [t \in Threads |-> IdleThread]
    /\ h = [t \in Threads |-> FreshHistory]
    /\ g = [resetRuns |-> 0, setCalls |-> 0, handles |-> 0,
            resetEnd |-> None, reset |-> ResetSummary(FreshHistory)]
    /\ prev = [t \in Threads |-> NoPrev]
    /\ calls = 0

\* One goroutine calls an entry point, any of them, repeatedly.
Init ==
    /\ InitDb
    /\ InitProcess
    /\ callers = {1}
    /\ \E o \in AllOps : entry = {o}

\* Several goroutines call the test initialisers concurrently.
InitGate ==
    /\ InitDb
    /\ InitProcess
    /\ callers = Threads
    /\ entry = GateOps

\* ------------------------------------------------------------------ helpers

\* The call returns v to its caller.
Return(r, v) ==
    [r EXCEPT !.pc = "idle", !.ret = v, !.todo = {}, !.name = None, !.i = 0]

\* The value an entry point that ran through resetFixturesOnce.Do returns:
\* InitTestDb returns db, InitTestFixtures returns nothing.
GateResult(o) == IF o = "InitTestDb" THEN "db" ELSE "ok"

\* An error that is reported but not raised: the goroutine carries on where
\* it is.
PanicContinues(r) == r

\* panic(...): the goroutine unwinds out of the entry point.
Panicked(r) == Return(r, "panic")

\* A gate that is armed again when the function it runs panics.
OnceRearmedAfterPanic(t) ==
    IF th[t].op \in GateOps THEN "idle" ELSE resetFixturesOnce

\* The state of resetFixturesOnce after a panic of goroutine t: Do's deferred
\* store marks the Once done when the panic passes through it.
OnceAfterPanic(t) ==
    IF th[t].op \in GateOps THEN "done" ELSE resetFixturesOnce

\* The process record after a panic of goroutine t whose call had done hist.
GAfterPanic(t, hist) ==
    IF th[t].op \in GateOps
    THEN [g EXCEPT !.resetEnd = "panic", !.reset = ResetSummary(hist)]
    ELSE g

\* HasDbProvider(): a provider is registered.
HasProvider == dbProvider # 0

\* InitTestDb without its guard: it never returns early.
EarlyReturnNever(has) == FALSE

\* InitTestDb: if HasDbProvider() { return nil }, given HasDbProvider()'s result.
EarlyReturn(has) == has

\* InitTestDb calling InitTestFixtures() right after its guard, before the
\* provider is registered.
AfterGuardFixtures == "Do"

\* InitTestDb past its guard: db := &Gorm{...}; SetDbProvider(db) comes next,
\* InitTestFixtures() after it.
AfterGuard == "SetDbProvider"

\* A plain flag in place of the Once: a caller that finds f running does not
\* wait for it.
OnceNeverBlocks(once) == FALSE

\* resetFixturesOnce.Do: a caller waits while another caller's f is running.
OnceBlocked(once) == once = "running"

\* resetFixturesOnce.Do: f is not called when the Once is done.
OnceSkips(once) == once = "done"

\* A method of Types ranging over the package registry instead of its receiver.
RangeOfEntities(list) == Entities

\* `range list` in the methods of Types: the entries the loop iterates over,
\* each of them once.
RangeOf(list) == list

\* for i := 0; i <= attempts; i++ : the loop condition.
LoopCond(i) == i <= attempts

\* The attempt loop without its panic.
GiveUpNever(i) == FALSE

\* if i == attempts { panic("migration failed") }
GiveUp(i) == i = attempts

\* The attempt loop without its break: a successful probe is followed by the
\* sleep like a failed one.
AfterProbeNoBreak(ok, i) ==
    IF ~ok /\ GiveUp(i) THEN "panic" ELSE "sleep"

\* The body of the attempt loop after the probe of attempt i returned ok (no
\* error) or not: break, panic, or sleep and go round again.
AfterProbe(ok, i) ==
    IF ok THEN "break" ELSE IF GiveUp(i) THEN "panic" ELSE "sleep"

\* Db().Raw("DESCRIBE `name`").Scan(...).Error == nil: the results the probe
\* can have.  A table that does not exist is never readable; one that exists
\* may still be unreadable (not yet visible, or a transient error).
ProbeResults(name) == IF name \in dbTables THEN BOOLEAN ELSE {FALSE}

\* A seed constructor inserts its row if it is absent: the number of rows of
\* the entity after the call, given the number n before it.
FirstOrCreate(n) == IF n = 0 THEN 1 ELSE n

\* CreateTestFixtures() bulk-inserts the test dataset: the tables that hold
\* fixture data after the call.
CreateTestFixtures == dbTables

\* ResetDb calling CreateTestFixtures() whatever testFixtures is.
PopulateAlways(testFixtures) == TRUE

\* ResetDb never calling CreateTestFixtures().
PopulateNever(testFixtures) == FALSE

\* ResetDb: if testFixtures { CreateTestFixtures() }.
PopulateFixtures(testFixtures) == testFixtures

\* ------------------------------------------------------------------ actions

\* A caller invokes an entry point.
Call(t) ==
    /\ t \in callers
    /\ th[t].pc = "idle"
    /\ calls < MaxCalls
    /\ \E o \in entry :
       \E l \in (IF o \in ListOps THEN Types ELSE {Entities}) :
       \E tf \in (IF o = "ResetDb" THEN BOOLEAN ELSE {FALSE}) :
          /\ th' = [th EXCEPT ![t] =
                      [IdleThread EXCEPT
                         !.op = o, !.testFixtures = tf, !.list = l,
                         !.todo = RangeOf(l),
                         !.pc = CASE o = "InitTestDb" -> "HasDbProvider"
                                  [] o = "InitTestFixtures" -> "Do"
                                  [] o \in {"ResetDb", "DropTables", "Drop"} -> "Drop"
                                  [] o \in {"MigrateDb", "Migrate"} -> "Migrate"
                                  [] o = "WaitForMigration" -> "Range"]]
    /\ h' = [h EXCEPT ![t] = [FreshHistory EXCEPT !.beforeDone = (resetFixturesOnce # "done")]]
    /\ prev' = [prev EXCEPT ![t] =
                  IF th[t].op = None
                  THEN NoPrev
                  ELSE [op |-> th[t].op, ret |-> th[t].ret,
                        testFixtures |-> th[t].testFixtures,
                        tables |-> dbTables, rows |-> rows]]
    /\ calls' = calls + 1
    /\ UNCHANGED <<dbProvider, resetFixturesOnce, dbTables, rows, fixtureTables,
                   g, callers, entry>>

\* Types.Drop, one iteration of `for _, entity := range list`:
\* Db().DropTableIfExists(entity), panic on error.
DropStep(t) ==
    /\ th[t].pc = "Drop"
    /\ th[t].todo # {}
    /\ \E e \in th[t].todo, ok \in BOOLEAN :
          IF ok
          THEN /\ dbTables' = dbTables \ {e}
               /\ rows' = [s \in Seeds |-> IF SeedTable(s) = e THEN 0 ELSE rows[s]]
               /\ fixtureTables' = fixtureTables \ {e}
               /\ th' = [th EXCEPT ![t].todo = @ \ {e}]
               /\ h' = [h EXCEPT ![t].nDrop = Inc(@), ![t].dropped = @ \cup {e}]
               /\ UNCHANGED <<resetFixturesOnce, g>>
          ELSE LET hist == [h[t] EXCEPT !.nDrop = Inc(@), !.fatal = "drop"] IN
               /\ th' = [th EXCEPT ![t] = Panicked(@)]
               /\ h' = [h EXCEPT ![t] = hist]
               /\ resetFixturesOnce' = OnceAfterPanic(t)
               /\ g' = GAfterPanic(t, hist)
               /\ UNCHANGED <<dbTables, rows, fixtureTables>>
    /\ UNCHANGED <<dbProvider, prev, calls, callers, entry>>

\* Types.Drop returns (the range is exhausted); DropTables returns; ResetDb
\* goes on to MigrateDb.
DropDone(t) ==
    /\ th[t].pc = "Drop"
    /\ th[t].todo = {}
    /\ th' = [th EXCEPT ![t] =
                IF @.op \in {"Drop", "DropTables"}
                THEN Return(@, "ok")
                ELSE [@ EXCEPT !.pc = "Migrate", !.todo = RangeOf(th[t].list)]]
    /\ UNCHANGED <<dbProvider, resetFixturesOnce, dbTables, rows, fixtureTables,
                   h, g, prev, calls, callers, entry>>

\* Types.Migrate, one iteration of `for _, entity := range list`:
\* Db().AutoMigrate(entity), panic on error.
MigrateStep(t) ==
    /\ th[t].pc = "Migrate"
    /\ th[t].todo # {}
    /\ \E e \in th[t].todo, ok \in BOOLEAN :
          IF ok
          THEN /\ dbTables' = dbTables \cup {e}
               /\ th' = [th EXCEPT ![t].todo = @ \ {e}]
               /\ h' = [h EXCEPT ![t].nCreate = Inc(@), ![t].created = @ \cup {e}]
               /\ UNCHANGED <<resetFixturesOnce, g>>
          ELSE LET hist == [h[t] EXCEPT !.nCreate = Inc(@), !.fatal = "create"] IN
               /\ th' = [th EXCEPT ![t] = Panicked(@)]
               /\ h' = [h EXCEPT ![t] = hist]
               /\ resetFixturesOnce' = OnceAfterPanic(t)
               /\ g' = GAfterPanic(t, hist)
               /\ UNCHANGED dbTables
    /\ UNCHANGED <<dbProvider, rows, fixtureTables, prev, calls, callers, entry>>

\* Types.Migrate returns; MigrateDb goes on to Entities.WaitForMigration().
MigrateDone(t) ==
    /\ th[t].pc = "Migrate"
    /\ th[t].todo = {}
    /\ th' = [th EXCEPT ![t] =
                IF @.op = "Migrate"
                THEN Return(@, "ok")
                ELSE [@ EXCEPT !.pc = "Range", !.todo = RangeOf(th[t].list)]]
    /\ UNCHANGED <<dbProvider, resetFixturesOnce, dbTables, rows, fixtureTables,
                   h, g, prev, calls, callers, entry>>

\* Types.WaitForMigration, `for name := range list`: the next table is taken
\* and its attempt loop starts with i := 0.
Range(t) ==
    /\ th[t].pc = "Range"
    /\ th[t].todo # {}
    /\ \E n \in th[t].todo :
          th' = [th EXCEPT ![t] =
                   [@ EXCEPT !.todo = @ \ {n}, !.name = n, !.i = 0,
                             !.pc = IF LoopCond(0) THEN "Probe" ELSE "Range"]]
    /\ h' = [h EXCEPT ![t].tProbe = 0, ![t].tSleep = 0, ![t].tFail = 0,
                      ![t].tOk = FALSE]
    /\ UNCHANGED <<dbProvider, resetFixturesOnce, dbTables, rows, fixtureTables,
                   g, prev, calls, callers, entry>>

\* Types.WaitForMigration returns (the per-table observations end with it);
\* MigrateDb goes on to the seed constructors.
RangeDone(t) ==
    /\ th[t].pc = "Range"
    /\ th[t].todo = {}
    /\ th' = [th EXCEPT ![t] =
                IF @.op = "WaitForMigration"
                THEN Return(@, "ok")
                ELSE [@ EXCEPT !.pc = "Seed", !.name = None, !.i = 1]]
    /\ h' = [h EXCEPT ![t].tProbe = 0, ![t].tSleep = 0, ![t].tFail = 0,
                      ![t].tOk = FALSE]
    /\ UNCHANGED <<dbProvider, resetFixturesOnce, dbTables, rows, fixtureTables,
                   g, prev, calls, callers, entry>>

\* One iteration of the attempt loop: the DESCRIBE probe; break on success;
\* panic when the failed attempt was the last one; otherwise
\* time.Sleep(50 * time.Millisecond), i++ and the loop condition.
Attempt(t) ==
    /\ th[t].pc = "Probe"
    /\ \E ok \in ProbeResults(th[t].name) :
          LET ctl == AfterProbe(ok, th[t].i)
              probed == [h[t] EXCEPT
                           !.nProbe = Inc(@), !.tProbe = @ + 1,
                           !.nFail = IF ok THEN @ ELSE Inc(@),
                           !.tFail = IF ok THEN @ ELSE @ + 1,
                           !.tOk = ok,
                           !.probed = IF ok THEN @ \cup {th[t].name} ELSE @,
                           !.confirmed =
                               IF ok THEN @ \cup ({th[t].name} \cap h[t].created)
                               ELSE @]
          IN  IF ctl = "break"
              THEN /\ th' = [th EXCEPT ![t].pc = "Range"]
                   /\ h' = [h EXCEPT ![t] = probed]
                   /\ UNCHANGED <<resetFixturesOnce, g>>
              ELSE IF ctl = "panic"
              THEN LET hist == [probed EXCEPT !.fatal = "wait"] IN
                   /\ th' = [th EXCEPT ![t] = Panicked(@)]
                   /\ h' = [h EXCEPT ![t] = hist]
                   /\ resetFixturesOnce' = OnceAfterPanic(t)
                   /\ g' = GAfterPanic(t, hist)
              ELSE /\ th' = [th EXCEPT ![t] =
                               [@ EXCEPT !.i = @ + 1,
                                         !.pc = IF LoopCond(th[t].i + 1)
                                                THEN "Probe" ELSE "Range"]]
                   /\ h' = [h EXCEPT ![t] =
                               [probed EXCEPT !.nSleep = Inc(@), !.tSleep = @ + 1]]
                   /\ UNCHANGED <<resetFixturesOnce, g>>
    /\ UNCHANGED <<dbProvider, dbTables, rows, fixtureTables, prev, calls,
                   callers, entry>>

\* MigrateDb: the next seed constructor of SeedOrder.
Seed(t) ==
    /\ th[t].pc = "Seed"
    /\ th[t].i <= Len(SeedOrder)
    /\ LET s == SeedOrder[th[t].i] IN
          /\ rows' = [rows EXCEPT ![s] = FirstOrCreate(@)]
          /\ h' = [h EXCEPT ![t].seeds = Append(@, s)]
    /\ th' = [th EXCEPT ![t].i = @ + 1]
    /\ UNCHANGED <<dbProvider, resetFixturesOnce, dbTables, fixtureTables,
                   g, prev, calls, callers, entry>>

\* MigrateDb returns; ResetDb goes on to its testFixtures branch.
SeedDone(t) ==
    /\ th[t].pc = "Seed"
    /\ th[t].i > Len(SeedOrder)
    /\ th' = [th EXCEPT ![t] =
                IF @.op = "MigrateDb"
                THEN Return(@, "ok")
                ELSE [@ EXCEPT !.pc = "Fixtures", !.i = 0]]
    /\ UNCHANGED <<dbProvider, resetFixturesOnce, dbTables, rows, fixtureTables,
                   h, g, prev, calls, callers, entry>>

\* ResetDb: if testFixtures { CreateTestFixtures() }; ResetDb returns.
Fixtures(t) ==
    /\ th[t].pc = "Fixtures"
    /\ IF PopulateFixtures(th[t].testFixtures)
       THEN /\ fixtureTables' = CreateTestFixtures
            /\ h' = [h EXCEPT ![t].nFix = Inc(@)]
       ELSE UNCHANGED <<fixtureTables, h>>
    /\ th' = [th EXCEPT ![t] =
                IF @.op = "ResetDb"
                THEN Return(@, "ok")
                ELSE [@ EXCEPT !.pc = "DoReturn"]]
    /\ UNCHANGED <<dbProvider, resetFixturesOnce, dbTables, rows,
                   g, prev, calls, callers, entry>>

\* InitTestFixtures: resetFixturesOnce.Do(func() { ResetDb(true) }).  A caller
\* that finds the Once done returns; one that finds it idle runs f; one that
\* finds f running waits for it.
OnceDo(t) ==
    /\ th[t].pc = "Do"
    /\ ~OnceBlocked(resetFixturesOnce)
    /\ IF OnceSkips(resetFixturesOnce)
       THEN /\ th' = [th EXCEPT ![t] = Return(@, GateResult(@.op))]
            /\ g' = [g EXCEPT !.handles =
                        IF th[t].op = "InitTestDb" THEN @ + 1 ELSE @]
            /\ UNCHANGED <<resetFixturesOnce, h>>
       ELSE /\ resetFixturesOnce' = "running"
            /\ th' = [th EXCEPT ![t] =
                        [@ EXCEPT !.pc = "Drop", !.testFixtures = TRUE,
                                  !.todo = RangeOf(th[t].list)]]
            /\ h' = [h EXCEPT ![t].didDo = TRUE]
            /\ g' = [g EXCEPT !.resetRuns = @ + 1]
    /\ UNCHANGED <<dbProvider, dbTables, rows, fixtureTables, prev, calls,
                   callers, entry>>

\* f has returned: Do marks the Once done and returns, InitTestFixtures
\* returns, and InitTestDb returns db.
DoReturn(t) ==
    /\ th[t].pc = "DoReturn"
    /\ resetFixturesOnce' = "done"
    /\ th' = [th EXCEPT ![t] = Return(@, GateResult(@.op))]
    /\ g' = [g EXCEPT !.handles = IF th[t].op = "InitTestDb" THEN @ + 1 ELSE @,
                      !.resetEnd = "ok", !.reset = ResetSummary(h[t])]
    /\ UNCHANGED <<dbProvider, dbTables, rows, fixtureTables, h, prev, calls,
                   callers, entry>>

\* InitTestDb: if HasDbProvider() { return nil }.
HasDbProvider(t) ==
    /\ th[t].pc = "HasDbProvider"
    /\ th' = [th EXCEPT ![t] =
                IF EarlyReturn(HasProvider)
                THEN Return(@, "nil")
                ELSE [@ EXCEPT !.pc = AfterGuard]]
    /\ UNCHANGED <<dbProvider, resetFixturesOnce, dbTables, rows, fixtureTables,
                   h, g, prev, calls, callers, entry>>

\* InitTestDb: db := &Gorm{...}; SetDbProvider(db); then InitTestFixtures().
SetDbProvider(t) ==
    /\ th[t].pc = "SetDbProvider"
    /\ dbProvider' = t
    /\ th' = [th EXCEPT ![t].pc = "Do"]
    /\ h' = [h EXCEPT ![t].didSet = TRUE]
    /\ g' = [g EXCEPT !.setCalls = @ + 1]
    /\ UNCHANGED <<resetFixturesOnce, dbTables, rows, fixtureTables, prev, calls,
                   callers, entry>>

Next ==
    \E t \in Threads :
        \/ Call(t)
        \/ DropStep(t)
        \/ DropDone(t)
        \/ MigrateStep(t)
        \/ MigrateDone(t)
        \/ Range(t)
        \/ RangeDone(t)
        \/ Attempt(t)
        \/ Seed(t)
        \/ SeedDone(t)
        \/ Fixtures(t)
        \/ OnceDo(t)
        \/ DoReturn(t)
        \/ HasDbProvider(t)
        \/ SetDbProvider(t)

\* One goroutine calling one entry point repeatedly.
Spec == Init /\ [][Next]_vars

\* Several goroutines calling InitTestDb and InitTestFixtures concurrently.
SpecGate == InitGate /\ [][Next]_vars

\* One goroutine calling one entry point repeatedly, where a goroutine that is
\* in WaitForMigration keeps running: the scheduler runs a runnable
\* goroutine, time.Sleep returns, and every probe returns with a result.
SpecFair ==
    /\ Init
    /\ [][Next]_vars
    /\ \A t \in Threads : WF_vars(Range(t) \/ RangeDone(t) \/ Attempt(t))

\* ------------------------------------------------------------------ claims

\* Goroutine t has just finished the wait for a table: its last probe
\* succeeded (the observation lasts until the next table is taken).
TableDone(t) == h[t].tOk

\* C1: a table whose probes fail on attempts 1..k-1 and first succeed on
\* attempt k, k < attempts, is finished normally after exactly k probes and
\* k-1 sleeps: the waiter has moved on to the next table, nothing is fatal and
\* nothing was returned to the caller.  (k = 1: one probe, no sleep.)
C1_ExactProbesAndSleeps ==
    \A t \in Threads :
        TableDone(t) /\ h[t].tFail + 1 < attempts =>
            /\ h[t].tProbe = h[t].tFail + 1
            /\ h[t].tSleep = h[t].tFail
            /\ th[t].pc = "Range"
            /\ th[t].name \in h[t].probed
            /\ h[t].fatal = None
            /\ th[t].ret = None

\* C1 witness: a table became readable on attempt 99 (98 failed probes, 98
\* sleeps), and the waiter has moved on.
C1_Witness ==
    \E t \in Threads :
        /\ TableDone(t)
        /\ h[t].tFail = attempts - 2
        /\ h[t].tProbe = attempts - 1
        /\ h[t].tSleep = attempts - 2
        /\ th[t].pc = "Range"

\* C2, as claimed: a table that never becomes readable is probed exactly 100
\* times (the attempt ceiling) before the fatal termination, and a 101st
\* probe is never issued.
C2_ExactlyCeilingProbes ==
    \A t \in Threads :
        /\ h[t].tProbe <= attempts
        /\ (h[t].fatal = "wait" => h[t].tProbe = attempts)

\* Goroutine t has returned normally from a call of one of the entry points ops.
ReturnedFrom(t, ops) ==
    /\ th[t].pc = "idle"
    /\ th[t].op \in ops
    /\ th[t].ret \in {"ok", "db"}

\* Goroutine t is in, or has left, resetFixturesOnce.Do in its current call.
PastDo(t) ==
    /\ th[t].op \in GateOps
    /\ th[t].pc \notin {"HasDbProvider", "SetDbProvider", "Do"}
    /\ th[t].ret # "nil"

\* C3: however many InitTestFixtures calls are made, one after the other or
\* concurrently, ResetDb(true) is started exactly once: never a second time,
\* and once as soon as any call is past resetFixturesOnce.Do.
C3_ResetStartedOnce ==
    /\ g.resetRuns <= 1
    /\ (\E t \in Threads : PastDo(t)) => g.resetRuns = 1
    /\ (resetFixturesOnce # "idle") => g.resetRuns = 1

\* C3 witness: two goroutines have returned from the initialisers, one of
\* them without having run the reset, and the reset was started once.
C3_Witness ==
    \E t, u \in Threads :
        /\ t # u
        /\ ReturnedFrom(t, GateOps) /\ h[t].didDo
        /\ ReturnedFrom(u, GateOps) /\ ~h[u].didDo
        /\ g.resetRuns = 1

\* The run of ResetDb(true) inside resetFixturesOnce.Do has completed: every
\* table was dropped, created and confirmed readable, the four default rows
\* were inserted and the fixtures populated, and the database shows it.
ResetComplete ==
    /\ g.resetEnd = "ok"
    /\ g.reset.dropped = Entities
    /\ g.reset.created = Entities
    /\ g.reset.confirmed = Entities
    /\ \A s \in Seeds : \E k \in 1..Len(g.reset.seeds) : g.reset.seeds[k] = s
    /\ g.reset.nFix = 1
    /\ dbTables = Entities
    /\ \A s \in Seeds : rows[s] = 1
    /\ fixtureTables = Entities

\* C4, as claimed: a caller that invoked InitTestFixtures before the Once was
\* done (the caller that runs the reset, and those that call concurrently
\* with it) returns only when the reset sequence has completed.
C4_NoReturnBeforeResetComplete ==
    \A t \in Threads :
        ReturnedFrom(t, GateOps) /\ h[t].beforeDone => ResetComplete

\* C5: the step of InitTestDb that finds a provider registered returns nil and
\* changes nothing: not the provider, not the Once, not the database; the
\* call has dropped, created, probed, seeded and populated nothing and has
\* entered neither SetDbProvider nor InitTestFixtures.
C5_NoOpWhenRegistered ==
    [][\A t \in Threads :
          th[t].pc = "HasDbProvider" /\ dbProvider # 0 /\ th'[t] # th[t] =>
              /\ th'[t].pc = "idle"
              /\ th'[t].ret = "nil"
              /\ UNCHANGED <<dbProvider, resetFixturesOnce, dbTables, rows,
                             fixtureTables, g>>
              /\ h'[t].nDrop = 0 /\ h'[t].nCreate = 0 /\ h'[t].nProbe = 0
              /\ h'[t].seeds = <<>> /\ h'[t].nFix = 0
              /\ ~h'[t].didSet /\ ~h'[t].didDo]_vars

\* C5 witness: an InitTestDb call has returned nil with a provider registered.
C5_Witness ==
    \E t \in Threads :
        /\ th[t].op = "InitTestDb"
        /\ th[t].pc = "idle"
        /\ th[t].ret = "nil"
        /\ dbProvider # 0
        /\ h[t].nDrop = 0 /\ ~h[t].didDo

\* C6, as claimed: whatever the interleaving of the InitTestDb calls,
\* SetDbProvider is executed at most once and at most one call returns a
\* handle (so that a provider once set is not replaced).
C6_SinglyRegistered ==
    /\ g.setCalls <= 1
    /\ g.handles <= 1

\* MigrateDb has returned to goroutine t, or to ResetDb running in it.
MigrateDbReturned(t) ==
    \/ ReturnedFrom(t, {"MigrateDb"})
    \/ /\ th[t].op \in {"ResetDb"} \cup GateOps
       /\ \/ th[t].pc \in {"Fixtures", "DoReturn"}
          \/ ReturnedFrom(t, {"ResetDb"})
          \/ ReturnedFrom(t, GateOps) /\ h[t].didDo

\* C7: when MigrateDb has returned, every registered table has had a
\* successful probe in that call, issued after the table's create call.
C7_EveryTableConfirmed ==
    \A t \in Threads :
        MigrateDbReturned(t) =>
            /\ h[t].probed = Entities
            /\ h[t].confirmed = Entities

\* C7 witness: MigrateDb has returned after a wait in which probes failed,
\* with every table confirmed.
C7_Witness ==
    \E t \in Threads :
        /\ ReturnedFrom(t, {"MigrateDb"})
        /\ h[t].nFail > 0
        /\ h[t].confirmed = Entities

\* C8: after MigrateDb there is exactly one row of each default entity, and a
\* second MigrateDb run right after the first leaves the rows as the first did.
C8_SeedsNotDuplicated ==
    \A t \in Threads :
        ReturnedFrom(t, {"MigrateDb"}) =>
            /\ \A s \in Seeds : rows[s] = 1
            /\ (prev[t].op = "MigrateDb" /\ prev[t].ret = "ok" => rows = prev[t].rows)

\* C8 witness: the second of two successive MigrateDb runs has returned, each
\* having called the four constructors.
C8_Witness ==
    \E t \in Threads :
        /\ ReturnedFrom(t, {"MigrateDb"})
        /\ prev[t].op = "MigrateDb" /\ prev[t].ret = "ok"
        /\ Len(h[t].seeds) = Cardinality(Seeds)
        /\ \A s \in Seeds : rows[s] = 1

\* Goroutine t has returned from ResetDb(false).
ReturnedFromResetFalse(t) ==
    ReturnedFrom(t, {"ResetDb"}) /\ ~th[t].testFixtures

\* C9: after ResetDb(false), whatever the database was, exactly the registered
\* tables exist and no fixture data is populated; a second ResetDb(false)
\* right after the first leaves the same tables as the first did.
C9_ResetIdempotent ==
    \A t \in Threads :
        ReturnedFromResetFalse(t) =>
            /\ dbTables = Entities
            /\ fixtureTables = {}
            /\ (prev[t].op = "ResetDb" /\ ~prev[t].testFixtures /\ prev[t].ret = "ok"
                    => dbTables = prev[t].tables)

\* C9 witness: the second of two successive ResetDb(false) runs has returned.
C9_Witness ==
    \E t \in Threads :
        /\ ReturnedFromResetFalse(t)
        /\ prev[t].op = "ResetDb" /\ ~prev[t].testFixtures /\ prev[t].ret = "ok"
        /\ h[t].dropped = Entities
        /\ dbTables = Entities

\* The number of calls of the constructor of default entity s in a sequence
\* of constructor calls.
SeedCalls(seq, s) == Cardinality({k \in 1..Len(seq) : seq[k] = s})

\* C10: a MigrateDb call in which every table is readable on the first
\* attempt (no probe fails) performs exactly n create calls and n probes for
\* the n registered tables, no sleep, and calls each of the four default-row
\* constructors exactly once.
C10_FirstAttemptCounts ==
    \A t \in Threads :
        ReturnedFrom(t, {"MigrateDb"}) /\ h[t].nFail = 0 =>
            /\ h[t].nCreate = Cardinality(Entities)
            /\ h[t].nProbe = Cardinality(Entities)
            /\ h[t].nSleep = 0
            /\ \A s \in Seeds : SeedCalls(h[t].seeds, s) = 1
            /\ Len(h[t].seeds) = Cardinality(Seeds)

\* C10 witness: MigrateDb has returned from a run without a failed probe.
C10_Witness ==
    \E t \in Threads :
        /\ ReturnedFrom(t, {"MigrateDb"})
        /\ h[t].nFail = 0
        /\ h[t].nProbe = Cardinality(Entities)
        /\ h[t].created = Entities

\* Goroutine t executes, or has executed, MigrateDb in its current call:
\* directly, through ResetDb, or through resetFixturesOnce.Do.
RunsMigrateDb(t) == th[t].op \in {"MigrateDb", "ResetDb"} \cup GateOps

\* The order in which the default rows are to be inserted.
PlaceCountryCameraLens == <<"place", "country", "camera", "lens">>

\* C11: MigrateDb is strictly phased.  While a create call is still to come
\* no probe has been issued and no default row inserted; once a probe has been
\* issued every table has been created; while a probe is still to come no
\* default row has been inserted; once a default row has been inserted every
\* table has had its successful probe; and the default rows are inserted in
\* the order place, country, camera, lens.
C11_StrictlyPhased ==
    \A t \in Threads :
        RunsMigrateDb(t) =>
            /\ (th[t].pc = "Migrate" => h[t].nProbe = 0 /\ h[t].seeds = <<>>)
            /\ (h[t].nProbe > 0 => h[t].created = Entities)
            /\ (th[t].pc \in {"Range", "Probe"} => h[t].seeds = <<>>)
            /\ (h[t].seeds # <<>> =>
                    h[t].probed = Entities /\ h[t].confirmed = Entities)
            /\ Len(h[t].seeds) <= Len(PlaceCountryCameraLens)
            /\ \A k \in 1..Len(h[t].seeds) :
                   h[t].seeds[k] = PlaceCountryCameraLens[k]

\* C11 witness: MigrateDb has returned from a run in which probes failed and
\* were repeated, with the four default rows inserted in order.
C11_Witness ==
    \E t \in Threads :
        /\ ReturnedFrom(t, {"MigrateDb"})
        /\ h[t].nCreate = Cardinality(Entities)
        /\ h[t].nSleep > 0
        /\ h[t].seeds = PlaceCountryCameraLens

\* Goroutine t executes, or has executed, ResetDb in its current call:
\* directly, or as the function run by resetFixturesOnce.Do.
RunsResetDb(t) ==
    IF th[t].op \in GateOps THEN h[t].didDo ELSE th[t].op = "ResetDb"

\* ResetDb has returned in the current call of goroutine t.
ResetDbReturned(t) ==
    /\ RunsResetDb(t)
    /\ IF th[t].pc = "idle" THEN th[t].ret \in {"ok", "db"}
                             ELSE th[t].pc = "DoReturn"

\* C12: ResetDb(testFixtures) drops before it creates, then runs the whole of
\* MigrateDb, and calls the fixture population routine if and only if
\* testFixtures is true, then exactly once and after the four default rows.
\* While a drop is still to come nothing was created, probed, seeded or
\* populated; once a create call was made every table has been dropped; the
\* fixtures are not populated before MigrateDb is over; and when ResetDb has
\* returned, every table was dropped, created and confirmed, the four rows
\* were inserted and the fixtures populated once or never, as requested.
C12_ResetPhased ==
    \A t \in Threads :
        RunsResetDb(t) =>
            /\ (th[t].pc = "Drop" =>
                    /\ h[t].nCreate = 0 /\ h[t].nProbe = 0
                    /\ h[t].seeds = <<>> /\ h[t].nFix = 0)
            /\ (h[t].nCreate > 0 => h[t].dropped = Entities)
            /\ (th[t].pc \in {"Migrate", "Range", "Probe", "Seed"} => h[t].nFix = 0)
            /\ (h[t].nFix > 0 =>
                    /\ th[t].testFixtures
                    /\ h[t].nFix = 1
                    /\ h[t].seeds = PlaceCountryCameraLens)
            /\ (ResetDbReturned(t) =>
                    /\ h[t].dropped = Entities
                    /\ h[t].created = Entities
                    /\ h[t].confirmed = Entities
                    /\ h[t].seeds = PlaceCountryCameraLens
                    /\ h[t].nFix = IF th[t].testFixtures THEN 1 ELSE 0)

\* C12 witness: ResetDb(true) has returned with the fixtures populated, after
\* a ResetDb(false) of the same goroutine that had returned as well.
C12_Witness ==
    \E t \in Threads :
        /\ ReturnedFrom(t, {"ResetDb"})
        /\ th[t].testFixtures
        /\ h[t].nFix = 1
        /\ h[t].nDrop = Cardinality(Entities)
        /\ fixtureTables = Entities
        /\ prev[t].op = "ResetDb" /\ ~prev[t].testFixtures /\ prev[t].ret = "ok"

\* C13: if a create call fails during MigrateDb the operation ends fatally at
\* that table: the call has panicked and is over, the failed create call was
\* the last one (one more than the tables created before it), no probe was
\* issued, no default row inserted, no fixture populated, and the caller
\* received no value.
C13_CreateFailureFatal ==
    \A t \in Threads :
        RunsMigrateDb(t) /\ h[t].fatal = "create" =>
            /\ th[t].pc = "idle"
            /\ th[t].ret = "panic"
            /\ h[t].nCreate = Cardinality(h[t].created) + 1
            /\ h[t].created # Entities
            /\ h[t].nProbe = 0 /\ h[t].nSleep = 0
            /\ h[t].seeds = <<>>
            /\ h[t].nFix = 0

\* C13 witness: MigrateDb has panicked in the create call of the second table.
C13_Witness ==
    \E t \in Threads :
        /\ th[t].op = "MigrateDb"
        /\ th[t].pc = "idle"
        /\ h[t].fatal = "create"
        /\ h[t].nCreate = 2
        /\ Cardinality(h[t].created) = 1

\* C14: if a drop fails during ResetDb the operation ends fatally at that
\* table: the call has panicked and is over, the failed drop was the last one
\* (one more than the tables dropped before it), and nothing was created,
\* probed, seeded or populated.
C14_DropFailureFatal ==
    \A t \in Threads :
        RunsResetDb(t) /\ h[t].fatal = "drop" =>
            /\ th[t].pc = "idle"
            /\ th[t].ret = "panic"
            /\ h[t].nDrop = Cardinality(h[t].dropped) + 1
            /\ h[t].dropped # Entities
            /\ h[t].nCreate = 0 /\ h[t].created = {}
            /\ h[t].nProbe = 0 /\ h[t].nSleep = 0
            /\ h[t].seeds = <<>>
            /\ h[t].nFix = 0

\* C14 witness: ResetDb(true) has panicked in the drop of the second table.
C14_Witness ==
    \E t \in Threads :
        /\ th[t].op = "ResetDb"
        /\ th[t].testFixtures
        /\ th[t].pc = "idle"
        /\ h[t].fatal = "drop"
        /\ h[t].nDrop = 2
        /\ Cardinality(h[t].dropped) = 1

\* The step issues a probe in the call of goroutine t.
ProbeIssued(t) == h'[t].tProbe = h[t].tProbe + 1

\* The step makes goroutine t wait for another table than before.
TableTaken(t) == th'[t].name \notin {th[t].name, None}

\* C15: WaitForMigration waits for the tables one after the other.  A probe is
\* only issued for a table that has had no successful probe in this call, and
\* only while nothing was fatal in it; and the waiter only leaves a table
\* whose last probe succeeded, for a table that has had no successful probe.
\* So the probes of a table are consecutive and end with its first success,
\* and after a fatal exhaustion no probe follows.
C15_SequentialWait ==
    [][\A t \in Threads :
          /\ ProbeIssued(t) =>
                /\ th[t].name \notin h[t].probed
                /\ h[t].fatal = None
                /\ th'[t].name \in {th[t].name, None}
          /\ TableTaken(t) =>
                /\ th[t].name # None => th[t].name \in h[t].probed /\ h[t].tOk
                /\ th'[t].name \notin h[t].probed
                /\ h[t].fatal = None
          /\ h'[t].fatal = "wait" =>
                th'[t].pc = "idle" /\ th'[t].ret = "panic"]_vars

\* C15 witness: in one WaitForMigration call a first table became readable
\* after failed probes, and the probes of a second table are failing.
C15_Witness ==
    \E t \in Threads :
        /\ th[t].op = "WaitForMigration"
        /\ th[t].pc = "Probe"
        /\ h[t].probed # {}
        /\ th[t].name \notin h[t].probed
        /\ h[t].tFail > 0
        /\ h[t].nFail > h[t].tFail

\* Goroutine t is inside WaitForMigration.
Waiting(t) == th[t].pc \in {"Range", "Probe"}

\* C16, as claimed: WaitForMigration ends after at most `attempts` probes and
\* at most `attempts` sleeps per table (the attempt ceiling), whatever the
\* probe outcomes.
C16_AtMostCeiling ==
    \A t \in Threads :
        /\ h[t].tProbe <= attempts
        /\ h[t].tSleep <= attempts

\* C16, the part that holds: a goroutine that is inside WaitForMigration
\* leaves it (by return or by panic), whatever the probe outcomes.
C16_Terminates ==
    \A t \in Threads : Waiting(t) ~> ~Waiting(t)

\* C16, the bound the loop has: at most attempts + 1 probes and at most
\* `attempts` sleeps per table.
C16_BoundedByLoop ==
    \A t \in Threads :
        /\ h[t].tProbe <= attempts + 1
        /\ h[t].tSleep <= attempts

\* C17: a call of WaitForMigration, Migrate or Drop on an empty registry
\* issues no probe, no sleep, no create and no drop, is never fatal, has
\* nothing left to do but return, and returns normally.
C17_EmptyRegistryTrivial ==
    \A t \in Threads :
        th[t].op \in ListOps /\ th[t].list = {} =>
            /\ h[t].nProbe = 0 /\ h[t].nSleep = 0
            /\ h[t].nCreate = 0 /\ h[t].nDrop = 0
            /\ h[t].fatal = None
            /\ th[t].todo = {}
            /\ th[t].pc \in {"idle", "Drop", "Migrate", "Range"}
            /\ th[t].ret = IF th[t].pc = "idle" THEN "ok" ELSE None

\* C17 witness: WaitForMigration has returned from a call on an empty
\* registry, made while the database had no table.
C17_Witness ==
    \E t \in Threads :
        /\ th[t].op = "WaitForMigration"
        /\ th[t].list = {}
        /\ th[t].pc = "idle"
        /\ th[t].ret = "ok"
        /\ h[t].nProbe = 0
        /\ dbTables = {}

\* The current call of goroutine t has run no database operation and has not
\* entered the function of resetFixturesOnce.Do.
NothingRun(hist) ==
    /\ ~hist.didDo
    /\ hist.nDrop = 0 /\ hist.nCreate = 0 /\ hist.nProbe = 0
    /\ hist.seeds = <<>> /\ hist.nFix = 0
    /\ hist.fatal = None

\* C18: the gate is consumed even when its single execution fails.  Once
\* ResetDb(true) has panicked inside resetFixturesOnce.Do, the Once is done
\* and stays done and the reset has been started once and is never started
\* again; every call of an initialiser made from then on runs no drop,
\* create, probe, seed or fixture operation; its step at resetFixturesOnce.Do
\* returns at once; and the database is never touched again.
C18_GateConsumedOnPanic ==
    [][g'.resetEnd = "panic" =>
          /\ resetFixturesOnce' = "done"
          /\ g'.resetRuns = 1
          /\ \A t \in Threads :
                th'[t].op \in GateOps /\ ~h'[t].beforeDone =>
                    /\ NothingRun(h'[t])
                    /\ th'[t].pc \in {"idle", "HasDbProvider", "SetDbProvider", "Do"}
                    /\ th'[t].ret # "panic"
          /\ g.resetEnd = "panic" =>
                /\ UNCHANGED <<dbTables, rows, fixtureTables>>
                /\ \A t \in Threads :
                      th[t].pc = "Do" /\ th'[t] # th[t] =>
                          /\ th'[t].pc = "idle"
                          /\ th'[t].ret = GateResult(th[t].op)]_vars

\* C18 witness: the reset has panicked in one InitTestFixtures call after it
\* had dropped a table, and an InitTestFixtures call made after that has
\* returned without having run anything.
C18_Witness ==
    \E t, u \in Threads :
        /\ g.resetEnd = "panic"
        /\ g.reset.dropped # {}
        /\ th[u].op = "InitTestFixtures" /\ h[u].didDo /\ th[u].ret = "panic"
        /\ th[t].op = "InitTestFixtures" /\ ~h[t].beforeDone
        /\ th[t].pc = "idle" /\ th[t].ret = "ok"
        /\ NothingRun(h[t])

\* Goroutine t is inside the InitTestFixtures() call of its current call.
InFixtureInit(t) ==
    th[t].pc \in {"Do", "Drop", "Migrate", "Range", "Probe", "Seed",
                  "Fixtures", "DoReturn"}

====
